---- MODULE Spec2Model ----
(***************************************************************************)
(* Model of the browser upload script documented in src/README.md          *)
(* (lines 26-245): the drop zone / file chooser handlers, the sequential   *)
(* upload loop of uploadFiles, the per-item and aggregate progress renders *)
(* the registry view rendered by loadUploadedFiles, and deleteFile.        *)
(*                                                                         *)
(* JavaScript runs every handler and every continuation of an async        *)
(* function to completion, so one action is one handler, or the code of an *)
(* async function between two awaits.                                      *)
(***************************************************************************)
EXTENDS Integers, Sequences, FiniteSets, TLC

\* ------------------------------------------------------------ bounds
\* Batches the user starts during one page life.
MaxBatches == 2
\* Files in one selection or drop.
MaxFiles == 2
\* Outstanding registry fetches up to which the refresh button is clicked again.
MaxLoads == 2
\* Entries in one answer of GET /files.
MaxList == 2
\* DELETE requests up to which a deletion is confirmed again.
MaxDeletes == 2

Batches == 1 .. MaxBatches

\* The i-th file of the user's folder: name and size in bytes (0, 1024, 1536, ...).
File(i) == [name |-> i, size |-> IF i = 1 THEN 0 ELSE 512 * i]

\* Sequences of length 0 .. n over S.
SeqsUpTo(S, n) == UNION { [1 .. m -> S] : m \in 0 .. n }

\* What a drop or a change event can carry: n distinct files, n = 0 included,
\* picked in ascending or in descending order. The script reads of a file only
\* its name and size, and only to display them.
FileSeqs ==
    { [i \in 1 .. n |-> File(i)] : n \in 0 .. MaxFiles }
    \cup { [i \in 1 .. n |-> File(n + 1 - i)] : n \in 0 .. MaxFiles }

\* ------------------------------------------------------------ state
VARIABLES
    nBatches,         \* calls of uploadFiles so far
    files,            \* files[b]: the argument of the b-th call of uploadFiles
    idx,              \* idx[b]: its loop variable i
    completed,        \* completed[b]: its local counter
    pc,               \* pc[b]: "unused", "fetch" (awaiting fetch('/upload')),
                      \*        "timer" (setTimeout pending), "done"
    issued,           \* issued[b]: log of the upload requests of call b
    fileList,         \* children of #file-list
    progressDisplay,  \* progressContainer.style.display
    progressBar,      \* progressBar.style.width, as the fraction num/den of 100%
    statusText,       \* statusText.textContent
    reported,         \* the call and the arguments of the last updateOverallProgress
    uploadedFiles,    \* children of #uploaded-files
    loads,            \* outstanding calls of loadUploadedFiles, in call order
    refreshes,        \* refreshes[b]: calls of loadUploadedFiles by the timer of call b
    hides,            \* hides[b]: times the timer of call b hid the progress UI
    registry,         \* names of the files the backend stores
    deletes,          \* outstanding calls of deleteFile, in call order
    requests,         \* log of the DELETE requests sent
    notices,          \* log of the alert() dialogs shown
    prompt,           \* the last confirm() dialog and the user's answer
    reloads           \* log of window.location.reload(): the names deleted

\* The state of one page life.
pageVars == <<nBatches, files, idx, completed, pc, issued, fileList,
              progressDisplay, progressBar, statusText, reported, uploadedFiles,
              loads, refreshes, hides>>

\* The backend, the calls of deleteFile and what the user was shown.
deleteVars == <<registry, deletes, requests, notices, prompt, reloads>>

vars == <<nBatches, files, idx, completed, pc, issued, fileList,
          progressDisplay, progressBar, statusText, reported, uploadedFiles,
          loads, refreshes, hides, registry, deletes, requests, notices,
          prompt, reloads>>

\* ------------------------------------------------------------ formatFileSize
k == 1024
sizes == <<"Bytes", "KB", "MB", "GB">>

RECURSIVE Pow(_, _)
Pow(b, e) == IF e = 0 THEN 1 ELSE b * Pow(b, e - 1)

\* Math.floor(Math.log(bytes) / Math.log(k)) for bytes >= 1.
RECURSIVE FloorLog(_, _)
FloorLog(bytes, base) == IF bytes < base THEN 0 ELSE 1 + FloorLog(bytes \div base, base)

\* The text formatFileSize returns: the number (in hundredths, as toFixed(2)
\* rounds it; parseFloat only drops trailing zeros) and the unit.
formatFileSize(bytes) ==
    IF bytes = 0
    THEN [hundredths |-> 0, unit |-> "Bytes"]
    ELSE LET i == FloorLog(bytes, k)
             d == Pow(k, i)
         IN [hundredths |-> (2 * 100 * bytes + d) \div (2 * d),
             unit |-> IF i + 1 <= Len(sizes) THEN sizes[i + 1] ELSE "undefined"]

\* ------------------------------------------------------------ upload items
TextUploading == "uploading..."
TextDone == "done"
TextError == "error"

\* One .file-item of #file-list as displaySelectedFiles builds it. batch and
\* index record which call and which position the item was rendered for.
FileItem(b, i, file) ==
    [batch |-> b, index |-> i, name |-> file.name, size |-> formatFileSize(file.size),
     status |-> "uploading", text |-> TextUploading, width |-> 0]

displaySelectedFiles(b, fs) == [i \in 1 .. Len(fs) |-> FileItem(b, i - 1, fs[i])]

\* updateFileStatus(index, status, text) on the item list fl: index is 0-based;
\* a missing item is skipped.
updateFileStatus(fl, index, status, text) ==
    IF index + 1 \in DOMAIN fl
    THEN [fl EXCEPT ![index + 1] =
             [@ EXCEPT !.text = text,
                       !.status = status,
                       !.width = IF status = "success" THEN 100 ELSE @]]
    ELSE fl

\* Faulty variant: the all-complete message one file early.
ProgressTextEarly(done, total) ==
    IF done + 1 >= total
    THEN [kind |-> "all complete", done |-> 0, total |-> 0]
    ELSE [kind |-> "uploading", done |-> done, total |-> total]

\* The status text updateOverallProgress(completed, total) writes: the
\* all-complete message, or the text with the two numbers in it.
ProgressText(done, total) ==
    IF done = total
    THEN [kind |-> "all complete", done |-> 0, total |-> 0]
    ELSE [kind |-> "uploading", done |-> done, total |-> total]

RECURSIVE Gcd(_, _)
Gcd(a, b) == IF b = 0 THEN a ELSE Gcd(b, a % b)

\* The width updateOverallProgress(completed, total) gives the progress bar:
\* completed / total * 100 percent, as a fraction in lowest terms.
ProgressWidth(done, total) ==
    LET g == Gcd(done * 100, total)
    IN [num |-> (done * 100) \div g, den |-> total \div g]

\* The outcomes of one fetch('/upload'): a 2xx response, another response,
\* a rejected promise.
Outcomes == {"ok", "not ok", "rejected"}

\* The status and text the loop body passes to updateFileStatus.
StatusOf(outcome) == IF outcome = "ok" THEN "success" ELSE "error"
TextOf(outcome) == IF outcome = "ok" THEN TextDone ELSE TextError

\* Faulty variant: the early return is missing.
IsEmptyNever(fs) == FALSE

\* handleFiles' test of an empty selection.
IsEmpty(fs) == Len(fs) = 0

\* Faulty variant: the loop stays on the same file.
NextIndexRetry(i) == i

\* The loop's i++.
NextIndex(i) == i + 1

\* Faulty variant: the loop stops one file early.
HasNextShort(i, n) == i + 1 < n

\* The loop's condition i < files.length.
HasNext(i, n) == i < n

\* The upload request for fs[i], i 0-based, as the log records it.
Request(fs, i) == [index |-> i, file |-> fs[i + 1], resolved |-> FALSE]

\* ------------------------------------------------------------ registry view
EmptyMsg == [type |-> "empty"]
ErrorMsg == [type |-> "error"]

\* The files the backend can list.
StoredFiles ==
    { [null |-> FALSE, name |-> 1, size |-> 1024],
      [null |-> FALSE, name |-> 2, size |-> 1536] }

\* A JSON null where an entry should be.
NullEntry == [null |-> TRUE, name |-> 0, size |-> 0]

\* What the body of an answer to GET /files can be: text that is no JSON, the
\* JSON null, a JSON object, or an array of entries and nulls.
Bodies ==
    { [kind |-> kd, items |-> <<>>] : kd \in {"malformed", "null", "object"} }
    \cup { [kind |-> "array", items |-> a] :
              a \in SeqsUpTo(StoredFiles \cup {NullEntry}, MaxList) }

\* The .file-item loadUploadedFiles builds for one entry.
StoredItem(file) ==
    [type |-> "file", name |-> file.name, size |-> formatFileSize(file.size)]

\* Faulty variant: the catch block appends the error placeholder.
RenderCatchAppend(view) == Append(view, ErrorMsg)

\* The catch block of loadUploadedFiles: innerHTML is assigned, which replaces
\* every child of the view.
RenderCatch(view) == <<ErrorMsg>>

\* Faulty variant: the view is not cleared before it is rendered.
KeepView(view) == view

\* uploadedFiles.innerHTML = '': the view without its children.
ClearView(view) == <<>>

\* files.forEach(...) from entry i on: reading .name of a null throws, which
\* leaves the children appended so far.
RECURSIVE RenderEntries(_, _, _)
RenderEntries(view, items, i) ==
    IF i > Len(items)
    THEN [view |-> view, threw |-> FALSE]
    ELSE IF items[i].null
         THEN [view |-> view, threw |-> TRUE]
         ELSE RenderEntries(Append(view, StoredItem(items[i])), items, i + 1)

\* loadUploadedFiles from "await response.json()" on, the body being parsed:
\* the view it leaves. response.ok is not read.
RenderBody(view, body) ==
    IF body.kind = "malformed"
    THEN RenderCatch(view)
    ELSE LET cleared == ClearView(view) IN
         IF body.kind = "null" \/ body.kind = "object"
         THEN RenderCatch(cleared)
         ELSE IF Len(body.items) = 0
              THEN <<EmptyMsg>>
              ELSE LET r == RenderEntries(cleared, body.items, 1) IN
                   IF r.threw THEN RenderCatch(r.view) ELSE r.view

\* A fresh call of loadUploadedFiles, suspended in fetch('/files'). overtaken
\* records that a call made after this one has already written the view.
NewLoad == [pc |-> "fetch", ok |-> FALSE, overtaken |-> FALSE]

\* s without its n-th element.
Remove(s, n) == [i \in 1 .. Len(s) - 1 |-> IF i < n THEN s[i] ELSE s[i + 1]]

\* The outstanding calls once the n-th has written the view and returned: the
\* calls made before it are overtaken.
Finish(ls, n) ==
    Remove([i \in DOMAIN ls |-> IF i < n THEN [ls[i] EXCEPT !.overtaken = TRUE] ELSE ls[i]], n)

\* ------------------------------------------------------------ deleteFile
\* The names of the files the backend can list.
Names == { f.name : f \in StoredFiles }

\* The answer of GET /files when the backend stores the names in reg: the array
\* of their entries, by name.
RECURSIVE ListOf(_)
ListOf(S) ==
    IF S = {}
    THEN <<>>
    ELSE LET f == CHOOSE x \in S : \A y \in S : x.name <= y.name
         IN <<f>> \o ListOf(S \ {f})

Listing(reg) ==
    [kind |-> "array", items |-> ListOf({ f \in StoredFiles : f.name \in reg })]

\* The backend's registry after it has carried out the request req.
BackendDelete(reg, req) == reg \ {req.name}

NoPrompt == [name |-> 0, accepted |-> FALSE]

\* Faulty variant: the answer of confirm() is not read.
DeclinedNever(accepted) == FALSE

\* if (!confirm(...)) return;
Declined(accepted) == ~accepted

\* Faulty variant: the request names the first file whatever the argument.
DeleteRequestFirst(filename) == [method |-> "DELETE", name |-> 1]

\* fetch(`/delete/${encodeURIComponent(filename)}`, {method: 'DELETE'}): the
\* request sent. The path segment is the percent-encoding of filename, which
\* the backend decodes to filename; the request is written by the name it
\* decodes to.
DeleteRequest(filename) == [method |-> "DELETE", name |-> filename]

\* What the body of a non-2xx answer to DELETE can be: text that is no JSON,
\* the JSON null, an object with an error member ("locked"), an object without
\* one, whose .error reads undefined.
ErrorBodies ==
    { [kind |-> "malformed", error |-> "undefined"],
      [kind |-> "null", error |-> "undefined"],
      [kind |-> "object", error |-> "locked"],
      [kind |-> "object", error |-> "undefined"] }

\* alert(`削除に失敗しました: ${errorData.error}`)
NoticeFailed(error) == [text |-> "delete failed: ", detail |-> error]

\* alert('削除中にエラーが発生しました')
NoticeGeneric == [text |-> "error while deleting", detail |-> ""]

\* deleteFile from "await response.json()" on, the body being parsed: the
\* alert it shows. json() rejects on text that is no JSON and reading .error
\* of null throws, both of which end in the catch block.
DeleteNotice(body) ==
    IF body.kind = "malformed" \/ body.kind = "null"
    THEN NoticeGeneric
    ELSE NoticeFailed(body.error)

\* ------------------------------------------------------------ initial state
\* The page after DOMContentLoaded: the first loadUploadedFiles() is suspended
\* in its fetch and the listeners are set. The markup is not part of the
\* script: the progress container is taken to start hidden and both lists to
\* start without children.
InitPage ==
    /\ nBatches = 0
    /\ files = [b \in Batches |-> <<>>]
    /\ idx = [b \in Batches |-> 0]
    /\ completed = [b \in Batches |-> 0]
    /\ pc = [b \in Batches |-> "unused"]
    /\ issued = [b \in Batches |-> <<>>]
    /\ fileList = <<>>
    /\ progressDisplay = "none"
    /\ progressBar = [num |-> 0, den |-> 1]
    /\ statusText = [kind |-> "none", done |-> 0, total |-> 0]
    /\ reported = [batch |-> 0, done |-> 0, total |-> 0]
    /\ uploadedFiles = <<>>
    /\ loads = <<NewLoad>>
    /\ refreshes = [b \in Batches |-> 0]
    /\ hides = [b \in Batches |-> 0]

\* The backend stores every file it can list; nothing has been asked of the
\* user yet.
Init ==
    /\ InitPage
    /\ registry = Names
    /\ deletes = <<>>
    /\ requests = <<>>
    /\ notices = <<>>
    /\ prompt = NoPrompt
    /\ reloads = <<>>

\* ------------------------------------------------------------ upload actions
\* handleFiles(fs): the early return on an empty selection; otherwise the
\* progress UI is shown, the items are rendered and uploadFiles runs up to its
\* first await (the fetch for file 0), or to its setTimeout if the loop has
\* nothing to do.
handleFiles(fs) ==
    IF IsEmpty(fs)
    THEN UNCHANGED vars
    ELSE /\ nBatches < MaxBatches
         /\ LET b == nBatches + 1
                n == Len(fs)
            IN /\ nBatches' = b
               /\ files' = [files EXCEPT ![b] = fs]
               /\ idx' = [idx EXCEPT ![b] = 0]
               /\ completed' = [completed EXCEPT ![b] = 0]
               /\ IF HasNext(0, n)
                  THEN /\ issued' = [issued EXCEPT ![b] = <<Request(fs, 0)>>]
                       /\ pc' = [pc EXCEPT ![b] = "fetch"]
                  ELSE /\ issued' = [issued EXCEPT ![b] = <<>>]
                       /\ pc' = [pc EXCEPT ![b] = "timer"]
               /\ progressDisplay' = "block"
               /\ fileList' = displaySelectedFiles(b, fs)
               /\ UNCHANGED <<progressBar, statusText, reported, uploadedFiles,
                              loads, refreshes, hides>>
               /\ UNCHANGED deleteVars

\* The drop handler of the upload area.
Drop(fs) == handleFiles(fs)

\* The change handler of the file input.
Change(fs) == handleFiles(fs)

\* The fetch of call b settles with outcome o: the rest of the loop body, and
\* then either the next iteration up to its fetch or the setTimeout.
UploadResolve(b, o) ==
    /\ pc[b] = "fetch"
    /\ LET i == idx[b]
           n == Len(files[b])
           done == completed[b] + 1
           j == NextIndex(i)
           log == [issued[b] EXCEPT ![Len(issued[b])].resolved = TRUE]
       IN /\ fileList' = updateFileStatus(fileList, i, StatusOf(o), TextOf(o))
          /\ completed' = [completed EXCEPT ![b] = done]
          /\ progressBar' = ProgressWidth(done, n)
          /\ statusText' = ProgressText(done, n)
          /\ reported' = [batch |-> b, done |-> done, total |-> n]
          /\ idx' = [idx EXCEPT ![b] = j]
          /\ IF HasNext(j, n)
             THEN /\ issued' = [issued EXCEPT ![b] = Append(log, Request(files[b], j))]
                  /\ pc' = pc
             ELSE /\ issued' = [issued EXCEPT ![b] = log]
                  /\ pc' = [pc EXCEPT ![b] = "timer"]
    /\ UNCHANGED <<nBatches, files, progressDisplay, uploadedFiles, loads,
                   refreshes, hides>>
    /\ UNCHANGED deleteVars

\* The timer callback of call b: loadUploadedFiles() up to its fetch, and the
\* progress UI is hidden.
TimerFire(b) ==
    /\ pc[b] = "timer"
    /\ pc' = [pc EXCEPT ![b] = "done"]
    /\ loads' = Append(loads, NewLoad)
    /\ refreshes' = [refreshes EXCEPT ![b] = @ + 1]
    /\ progressDisplay' = "none"
    /\ hides' = [hides EXCEPT ![b] = @ + 1]
    /\ UNCHANGED <<nBatches, files, idx, completed, issued, fileList,
                   progressBar, statusText, reported, uploadedFiles>>
    /\ UNCHANGED deleteVars

\* ------------------------------------------------------------ registry actions
\* Every variable but those of the registry view.
nonRegistryVars ==
    <<nBatches, files, idx, completed, pc, issued, fileList, progressDisplay,
      progressBar, statusText, reported, refreshes, hides, registry, deletes,
      requests, notices, prompt, reloads>>

\* The click handler of the refresh button: loadUploadedFiles() up to its fetch.
RefreshClick ==
    /\ Len(loads) < MaxLoads
    /\ loads' = Append(loads, NewLoad)
    /\ UNCHANGED uploadedFiles
    /\ UNCHANGED nonRegistryVars

\* fetch('/files') of the n-th outstanding call resolves with a response whose
\* status is 2xx (ok) or not; the call is now suspended in response.json().
LoadFetchResolve(n, ok) ==
    /\ n \in DOMAIN loads
    /\ loads[n].pc = "fetch"
    /\ loads' = [loads EXCEPT ![n] = [@ EXCEPT !.pc = "json", !.ok = ok]]
    /\ UNCHANGED uploadedFiles
    /\ UNCHANGED nonRegistryVars

\* fetch('/files') of the n-th outstanding call rejects: the catch block.
LoadFetchReject(n) ==
    /\ n \in DOMAIN loads
    /\ loads[n].pc = "fetch"
    /\ uploadedFiles' = RenderCatch(uploadedFiles)
    /\ loads' = Finish(loads, n)
    /\ UNCHANGED nonRegistryVars

\* response.json() of the n-th outstanding call settles, the body being body:
\* the rest of loadUploadedFiles.
LoadJson(n, body) ==
    /\ n \in DOMAIN loads
    /\ loads[n].pc = "json"
    /\ uploadedFiles' = RenderBody(uploadedFiles, body)
    /\ loads' = Finish(loads, n)
    /\ UNCHANGED nonRegistryVars

\* response.json() of the n-th outstanding call settles when the backend has
\* answered with the listing of its registry.
LoadListing(n) == LoadJson(n, Listing(registry))

\* ------------------------------------------------------------ delete actions
\* window.location.reload(): the page is left, with its outstanding calls, and
\* loaded again.
PageReload ==
    /\ nBatches' = 0
    /\ files' = [b \in Batches |-> <<>>]
    /\ idx' = [b \in Batches |-> 0]
    /\ completed' = [b \in Batches |-> 0]
    /\ pc' = [b \in Batches |-> "unused"]
    /\ issued' = [b \in Batches |-> <<>>]
    /\ fileList' = <<>>
    /\ progressDisplay' = "none"
    /\ progressBar' = [num |-> 0, den |-> 1]
    /\ statusText' = [kind |-> "none", done |-> 0, total |-> 0]
    /\ reported' = [batch |-> 0, done |-> 0, total |-> 0]
    /\ uploadedFiles' = <<>>
    /\ loads' = <<NewLoad>>
    /\ refreshes' = [b \in Batches |-> 0]
    /\ hides' = [b \in Batches |-> 0]
    /\ deletes' = <<>>

\* The click handler of the delete button of the m-th child of the view:
\* deleteFile(name) up to its return or its fetch, the user answering the
\* confirm() dialog with accepted.
DeleteClick(m, accepted) ==
    /\ m \in DOMAIN uploadedFiles
    /\ uploadedFiles[m].type = "file"
    /\ LET filename == uploadedFiles[m].name IN
       /\ prompt' = [name |-> filename, accepted |-> accepted]
       /\ IF Declined(accepted)
          THEN UNCHANGED <<deletes, requests>>
          ELSE /\ Len(requests) < MaxDeletes
               /\ requests' = Append(requests, DeleteRequest(filename))
               /\ deletes' = Append(deletes, [name |-> filename,
                                              request |-> DeleteRequest(filename),
                                              pc |-> "fetch"])
    /\ UNCHANGED <<registry, notices, reloads>>
    /\ UNCHANGED pageVars

\* The fetch of the d-th outstanding call of deleteFile resolves. With a 2xx
\* status the backend has removed the file and the page reloads; otherwise the
\* call is now suspended in response.json().
DeleteFetchResolve(d, ok) ==
    /\ d \in DOMAIN deletes
    /\ deletes[d].pc = "fetch"
    /\ IF ok
       THEN /\ registry' = BackendDelete(registry, deletes[d].request)
            /\ reloads' = Append(reloads, deletes[d].name)
            /\ PageReload
            /\ UNCHANGED <<requests, notices, prompt>>
       ELSE /\ deletes' = [deletes EXCEPT ![d].pc = "json"]
            /\ UNCHANGED <<registry, requests, notices, prompt, reloads>>
            /\ UNCHANGED pageVars

\* The fetch of the d-th outstanding call of deleteFile rejects: the catch
\* block.
DeleteFetchReject(d) ==
    /\ d \in DOMAIN deletes
    /\ deletes[d].pc = "fetch"
    /\ notices' = Append(notices, NoticeGeneric)
    /\ deletes' = Remove(deletes, d)
    /\ UNCHANGED <<registry, requests, prompt, reloads>>
    /\ UNCHANGED pageVars

\* response.json() of the d-th outstanding call of deleteFile settles, the
\* body being body: the rest of deleteFile.
DeleteJson(d, body) ==
    /\ d \in DOMAIN deletes
    /\ deletes[d].pc = "json"
    /\ notices' = Append(notices, DeleteNotice(body))
    /\ deletes' = Remove(deletes, d)
    /\ UNCHANGED <<registry, requests, prompt, reloads>>
    /\ UNCHANGED pageVars

Loads == 1 .. (MaxLoads + MaxBatches + 1)

\* Positions in the registry view, and in the outstanding calls of deleteFile.
Entries == 1 .. (MaxList + 1)
Deletes == 1 .. MaxDeletes

Next ==
    \/ \E fs \in FileSeqs : Drop(fs)
    \/ \E fs \in FileSeqs : Change(fs)
    \/ \E b \in Batches, o \in Outcomes : UploadResolve(b, o)
    \/ \E b \in Batches : TimerFire(b)
    \/ RefreshClick
    \/ \E n \in Loads, ok \in BOOLEAN : LoadFetchResolve(n, ok)
    \/ \E n \in Loads : LoadFetchReject(n)
    \/ \E n \in Loads, body \in Bodies : LoadJson(n, body)
    \/ \E m \in Entries, accepted \in BOOLEAN : DeleteClick(m, accepted)
    \/ \E d \in Deletes, ok \in BOOLEAN : DeleteFetchResolve(d, ok)
    \/ \E d \in Deletes : DeleteFetchReject(d)
    \/ \E d \in Deletes, body \in ErrorBodies : DeleteJson(d, body)

Spec == Init /\ [][Next]_vars

\* The upload controller alone: the registry fetches it starts stay outstanding.
\* The two halves share only loads, which the upload actions append to and
\* never read.
NextUpload ==
    \/ \E fs \in FileSeqs : Drop(fs)
    \/ \E fs \in FileSeqs : Change(fs)
    \/ \E b \in Batches, o \in Outcomes : UploadResolve(b, o)
    \/ \E b \in Batches : TimerFire(b)

SpecUpload == Init /\ [][NextUpload]_vars

\* The upload controller when every upload request settles and every timer
\* that was set fires.
SpecUploadLive ==
    /\ Init
    /\ [][NextUpload]_vars
    /\ \A b \in Batches :
           /\ WF_vars(\E o \in Outcomes : UploadResolve(b, o))
           /\ WF_vars(TimerFire(b))

\* The registry view alone: no batch is started.
NextRegistry ==
    \/ RefreshClick
    \/ \E n \in Loads, ok \in BOOLEAN : LoadFetchResolve(n, ok)
    \/ \E n \in Loads : LoadFetchReject(n)
    \/ \E n \in Loads, body \in Bodies : LoadJson(n, body)

SpecRegistry == Init /\ [][NextRegistry]_vars

\* The registry view and deleteFile, no batch being started, with a backend
\* that answers GET /files with the listing of its registry and that removes a
\* file when it answers DELETE with a 2xx status.
NextDelete ==
    \/ RefreshClick
    \/ \E n \in Loads, ok \in BOOLEAN : LoadFetchResolve(n, ok)
    \/ \E n \in Loads : LoadListing(n)
    \/ \E m \in Entries, accepted \in BOOLEAN : DeleteClick(m, accepted)
    \/ \E d \in Deletes, ok \in BOOLEAN : DeleteFetchResolve(d, ok)
    \/ \E d \in Deletes : DeleteFetchReject(d)
    \/ \E d \in Deletes, body \in ErrorBodies : DeleteJson(d, body)

SpecDelete == Init /\ [][NextDelete]_vars

\* ------------------------------------------------------------ claims, upload
\* The batches that have been started.
Started == { b \in Batches : pc[b] # "unused" }

\* Requests of call b that have resolved.
Resolved(b) == Cardinality({ j \in DOMAIN issued[b] : issued[b][j].resolved })

\* An item in a terminal state.
Terminal(item) == item.status \in {"success", "error"}

\* C1: the requests of a batch are file 0, file 1, ... in that order, one per
\* file, each issued only when the one before it has resolved; a batch waiting
\* for a request has exactly that one outstanding, and a batch past its loop
\* has requested every file once and seen every request resolve.
C1_SequentialRequests ==
    \A b \in Started :
        LET log == issued[b] IN
        /\ Len(log) <= Len(files[b])
        /\ \A j \in DOMAIN log : log[j].index = j - 1 /\ log[j].file = files[b][j]
        /\ \A j \in DOMAIN log : j < Len(log) => log[j].resolved
        /\ pc[b] = "fetch" => Len(log) >= 1 /\ ~log[Len(log)].resolved
        /\ pc[b] \in {"timer", "done"} =>
               Len(log) = Len(files[b]) /\ \A j \in DOMAIN log : log[j].resolved

\* A batch of two files picked in descending order has issued both requests
\* and seen both resolve.
C1_Witness ==
    \E b \in Batches :
        /\ pc[b] = "timer"
        /\ Len(files[b]) = 2 /\ files[b][1] = File(2)
        /\ Len(issued[b]) = 2

\* C2: at the step that ends the loop of a batch of N files, N items are
\* displayed, they are the items of that batch, each is Succeeded or Failed,
\* and the batch's counter equals N.
C2_SettledBatchAllTerminal ==
    [][\A b \in Batches :
          (pc[b] = "fetch" /\ pc'[b] = "timer") =>
              /\ Len(fileList') = Len(files[b])
              /\ \A m \in DOMAIN fileList' :
                     fileList'[m].batch = b /\ Terminal(fileList'[m])
              /\ completed'[b] = Len(files[b])]_vars

\* C3: a failed upload does not end the batch (a batch past its loop has
\* requested every file), and an item is in a terminal state only by the
\* outcome of its own request: the request for that file of that batch has
\* resolved.
C3_NoFailFastOwnOutcome ==
    /\ \A b \in Started :
           pc[b] \in {"timer", "done"} => Len(issued[b]) = Len(files[b])
    /\ \A m \in DOMAIN fileList :
           Terminal(fileList[m]) =>
               LET log == issued[fileList[m].batch] IN
               /\ m \in DOMAIN log
               /\ log[m].resolved

\* C4: when the request for file i of a batch resolves, the item of that file
\* is marked: Succeeded with a full progress bar on a 2xx response, Failed with
\* the one failure text on any other response and on a rejected fetch.
C4_OutcomeMarksItem ==
    [][\A b \in Batches, o \in Outcomes :
          UploadResolve(b, o) =>
              /\ idx[b] + 1 \in DOMAIN fileList'
              /\ LET item == fileList'[idx[b] + 1] IN
                 /\ item.batch = b
                 /\ item.index = idx[b]
                 /\ o = "ok" =>
                        item.status = "success" /\ item.text = TextDone /\ item.width = 100
                 /\ o # "ok" =>
                        item.status = "error" /\ item.text = TextError /\ item.width = 0]_vars

\* C5: the counter of a batch is the number of its resolved requests and never
\* exceeds its number of files; the status text shows "uploading (k/N)" when
\* 0 < k < N and the all-complete message only when k = N, k and N being the
\* counter and the size of the batch that reported last.
C5_ProgressCounts ==
    /\ \A b \in Batches :
           completed[b] = Resolved(b) /\ completed[b] <= Len(files[b])
    /\ reported.batch = 0 => statusText.kind = "none"
    /\ reported.batch # 0 =>
           LET c == completed[reported.batch]
               n == Len(files[reported.batch])
           IN /\ reported.done = c /\ reported.total = n
              /\ (0 < c /\ c < n) =>
                     statusText = [kind |-> "uploading", done |-> c, total |-> n]
              /\ statusText.kind = "all complete" => c = n
              /\ statusText.kind \in {"uploading", "all complete"}

\* One of two files has resolved and the text shows 1 of 2.
C5_Witness ==
    /\ statusText = [kind |-> "uploading", done |-> 1, total |-> 2]
    /\ \E b \in Batches : completed[b] = 1 /\ pc[b] = "fetch"

\* C6: the timer of a batch refreshes the registry and hides the progress UI
\* once, together, and only after every request of the batch has resolved and
\* the timer, set when the loop ended, has fired; not before.
C6_RefreshAndHideOnce ==
    \A b \in Batches :
        /\ refreshes[b] = hides[b]
        /\ refreshes[b] = (IF pc[b] = "done" THEN 1 ELSE 0)
        /\ refreshes[b] > 0 =>
               /\ Len(issued[b]) = Len(files[b])
               /\ Resolved(b) = Len(files[b])
        /\ pc[b] = "timer" => Resolved(b) = Len(files[b])

\* The timer of a batch of two files has fired.
C6_Witness ==
    \E b \in Batches :
        pc[b] = "done" /\ Len(files[b]) = 2 /\ refreshes[b] = 1 /\ progressDisplay = "none"

\* C7: a drop or change event with files starts one batch, with these files in
\* this order, both as the batch uploaded and as the items displayed, and
\* leaves the other batches alone; an event without files changes nothing.
C7_EventStartsOneBatch ==
    [][/\ (Drop(<<>>) \/ Change(<<>>)) => UNCHANGED vars
       /\ \A fs \in FileSeqs \ {<<>>} :
              (Drop(fs) \/ Change(fs)) =>
                  /\ nBatches' = nBatches + 1
                  /\ files'[nBatches'] = fs
                  /\ pc[nBatches'] = "unused" /\ pc'[nBatches'] = "fetch"
                  /\ issued'[nBatches'] = <<[index |-> 0, file |-> fs[1], resolved |-> FALSE]>>
                  /\ \A b \in Batches \ {nBatches'} :
                         /\ files'[b] = files[b] /\ pc'[b] = pc[b]
                         /\ issued'[b] = issued[b]
                  /\ Len(fileList') = Len(fs)
                  /\ \A m \in DOMAIN fs :
                         /\ fileList'[m].name = fs[m].name
                         /\ fileList'[m].batch = nBatches'
                  /\ progressDisplay' = "block"]_vars

\* A batch of two files picked in descending order has just been started.
C7_Witness ==
    \E b \in Batches :
        /\ pc[b] = "fetch" /\ idx[b] = 0
        /\ files[b] = <<File(2), File(1)>>
        /\ Len(fileList) = 2 /\ fileList[1].name = 2 /\ fileList[2].name = 1
        /\ fileList[1].batch = b

\* ------------------------------------------------------------ claims, registry
\* A body that is an array of entries, none of them null.
WellFormed(body) ==
    body.kind = "array" /\ \A i \in DOMAIN body.items : ~body.items[i].null

\* C8: when a 2xx answer carries a well-formed array, the view becomes exactly
\* its entries, one item each, in the order of the array, whatever was shown
\* before; for the empty array it becomes the "no files yet" placeholder.
C8_SuccessReplacesView ==
    [][\A n \in Loads, body \in Bodies :
          (LoadJson(n, body) /\ loads[n].ok /\ WellFormed(body)) =>
              IF Len(body.items) = 0
              THEN uploadedFiles' = <<EmptyMsg>>
              ELSE /\ Len(uploadedFiles') = Len(body.items)
                   /\ \A i \in DOMAIN body.items :
                          /\ uploadedFiles'[i].type = "file"
                          /\ uploadedFiles'[i].name = body.items[i].name]_vars

\* The view shows two entries in the order 2, 1 with no refresh outstanding,
\* so after the initial load and a later refresh.
C8_Witness ==
    /\ Len(uploadedFiles) = 2
    /\ uploadedFiles[1].type = "file" /\ uploadedFiles[1].name = 2
    /\ uploadedFiles[2].type = "file" /\ uploadedFiles[2].name = 1
    /\ loads = <<>>

\* The view is a list of file items, or the one placeholder.
ViewShape ==
    \/ \A i \in DOMAIN uploadedFiles : uploadedFiles[i].type = "file"
    \/ uploadedFiles = <<EmptyMsg>>
    \/ uploadedFiles = <<ErrorMsg>>

\* C9: the view is always a file list, the empty placeholder or the error
\* placeholder; after a rejected fetch, and after a body that is no JSON, no
\* array, or an array with an entry that throws while it is rendered, it is
\* the error placeholder alone.
C9_FailureShowsOnlyError ==
    /\ []ViewShape
    /\ [][/\ \A n \in Loads : LoadFetchReject(n) => uploadedFiles' = <<ErrorMsg>>
          /\ \A n \in Loads, body \in Bodies :
                 (LoadJson(n, body) /\ ~WellFormed(body)) =>
                     uploadedFiles' = <<ErrorMsg>>]_vars

\* The error placeholder is shown while a later refresh is being parsed.
C9_Witness ==
    /\ uploadedFiles = <<ErrorMsg>>
    /\ Len(loads) = 1 /\ loads[1].pc = "json"

\* C10: an answer to GET /files with a status that is not 2xx leaves the error
\* placeholder, whatever its body.
C10_NonOkShowsError ==
    [][\A n \in Loads, body \in Bodies :
          (LoadJson(n, body) /\ ~loads[n].ok) => uploadedFiles' = <<ErrorMsg>>]_vars

\* ------------------------------------------------------------ claims, overlapping batches
\* C14: the i-th displayed item is the item of the i-th file of its batch, and
\* a step that changes the status of an item that stays displayed is the
\* resolution of the request for that file of that batch.
C14_ItemsChangeByOwnRequest ==
    /\ [](\A m \in DOMAIN fileList :
              /\ fileList[m].index = m - 1
              /\ m \in DOMAIN files[fileList[m].batch]
              /\ fileList[m].name = files[fileList[m].batch][m].name)
    /\ [][\A m \in DOMAIN fileList :
              (nBatches' = nBatches /\ fileList'[m] # fileList[m]) =>
                  /\ pc[fileList[m].batch] = "fetch"
                  /\ idx[fileList[m].batch] = fileList[m].index
                  /\ Resolved(fileList[m].batch)' = Resolved(fileList[m].batch) + 1]_vars

\* C15: an item in a terminal state keeps its status, text and bar for as long
\* as the list it is in is displayed.
C15_TerminalIsFinal ==
    [][\A m \in DOMAIN fileList :
          (nBatches' = nBatches /\ Terminal(fileList[m])) =>
              fileList'[m] = fileList[m]]_vars

\* C16: at the step that issues request i+1 of a batch, the counter of the
\* batch is i+1, the status text has been written for that count, and the
\* items of files 0..i of that batch are displayed in a terminal state.
C16_RendersBeforeNextRequest ==
    [][\A b \in Batches :
          (pc[b] = "fetch" /\ Len(issued'[b]) = Len(issued[b]) + 1) =>
              LET i == idx[b] IN
              /\ issued'[b][Len(issued'[b])].index = i + 1
              /\ completed'[b] = i + 1
              /\ reported' = [batch |-> b, done |-> i + 1, total |-> Len(files[b])]
              /\ \A m \in 1 .. i + 1 :
                     /\ m \in DOMAIN fileList'
                     /\ fileList'[m].batch = b
                     /\ Terminal(fileList'[m])]_vars

\* C18: at most one upload request is outstanding, whatever the number of
\* batches that have been started.
C18_OneUploadInFlight ==
    Cardinality({ b \in Batches : pc[b] = "fetch" }) <= 1

\* C19: the progress UI is shown while any batch waits for an upload request.
C19_ProgressShownWhileUploading ==
    (\E b \in Batches : pc[b] = "fetch") => progressDisplay = "block"

C20_LatestRefreshWins ==
    [][\A n \in Loads :
          (LoadFetchReject(n) \/ \E body \in Bodies : LoadJson(n, body)) =>
              ~loads[n].overtaken]_vars

\* ------------------------------------------------------------ claims, delete
\* C11: deleteFile with the confirmation declined sends no request and changes
\* nothing: no DELETE request, no outstanding call, no reload, no notice, and
\* the page (the registry view included) and the backend registry are as before.
C11_DeclinedChangesNothing ==
    [][\A m \in Entries :
          DeleteClick(m, FALSE) =>
              UNCHANGED <<pageVars, registry, deletes, requests, notices, reloads>>]_vars

\* The user has declined the deletion of a displayed file; nothing was sent.
C11_Witness ==
    /\ prompt.name \in Names
    /\ ~prompt.accepted
    /\ \E m \in DOMAIN uploadedFiles :
           /\ uploadedFiles[m].type = "file"
           /\ uploadedFiles[m].name = prompt.name
    /\ requests = <<>>

\* C12: deleteFile with the confirmation accepted sends exactly one DELETE
\* request, for the name it was called with, and no other step sends one; when
\* the backend answers 2xx the page reloads (the view is empty and one fresh
\* GET /files is outstanding), the backend no longer stores the name, and no
\* view displayed from then on lists a name deleted that way.
C12_ConfirmedDeleteRemoves ==
    /\ [][/\ \A m \in Entries :
                DeleteClick(m, TRUE) =>
                    requests' = Append(requests, [method |-> "DELETE",
                                                  name |-> uploadedFiles[m].name])
          /\ (requests' # requests) => \E m \in Entries : DeleteClick(m, TRUE)
          /\ \A d \in Deletes :
                DeleteFetchResolve(d, TRUE) =>
                    /\ reloads' = Append(reloads, deletes[d].name)
                    /\ uploadedFiles' = <<>>
                    /\ loads' = <<NewLoad>>
                    /\ deletes[d].name \notin registry']_vars
    /\ [](\A m \in DOMAIN uploadedFiles :
              uploadedFiles[m].type = "file" =>
                  \A j \in DOMAIN reloads : reloads[j] # uploadedFiles[m].name)

\* One file was deleted, the page has reloaded and its refresh has rendered
\* the other file.
C12_Witness ==
    /\ Len(reloads) = 1
    /\ Len(requests) = 1
    /\ requests[1].name = reloads[1]
    /\ loads = <<>>
    /\ Len(uploadedFiles) = 1
    /\ uploadedFiles[1].type = "file"
    /\ uploadedFiles[1].name # reloads[1]

\* The body of a non-2xx answer carries an error message.
Usable(body) == body.kind = "object" /\ body.error # "undefined"

\* C13: a confirmed delete that fails ends with one more notice and no reload:
\* the generic notice when the fetch rejects or the body of the non-2xx answer
\* carries no usable error message, the backend's message otherwise.
C13_FailedDeleteNotice ==
    [][\A d \in Deletes :
          /\ DeleteFetchReject(d) =>
                 /\ notices' = Append(notices, NoticeGeneric)
                 /\ reloads' = reloads
          /\ \A body \in ErrorBodies :
                 DeleteJson(d, body) =>
                     /\ notices' = Append(notices,
                                          IF Usable(body)
                                          THEN NoticeFailed(body.error)
                                          ELSE NoticeGeneric)
                     /\ reloads' = reloads]_vars
====
